---- MODULE Spec2Model ----
(***************************************************************************)
(* The tipping problem of streamlit_app.py: three universes, nine          *)
(* triangular membership curves, the manual rule application that feeds    *)
(* the activation plot, and the scikit-fuzzy control system that reports   *)
(* the tip.                                                                 *)
(*                                                                         *)
(* Numbers.  Every membership degree the program can produce is a          *)
(* multiple of 1/5, 1/13 or 1/12 (the widths of the triangles' sides), so  *)
(* a degree d is held as the integer DegScale * d.  The control system     *)
(* adds to the tip universe the points where a tip curve crosses a firing  *)
(* strength; firing strengths are multiples of 1/5, so those points are    *)
(* multiples of 1/5 and a universe position x is held there as XScale * x. *)
(* float64 rounding is monotone and the degrees that are compared are      *)
(* either equal or at least 1/780 apart, so fmin/fmax pick the same        *)
(* operand in floating point and here.  Where float64 rounding decides     *)
(* whether two positions are one point or two (the crossing points), the   *)
(* rounding is kept beside the position, in units in the last place.       *)
(***************************************************************************)
EXTENDS Integers, Sequences, FiniteSets, TLC

\* ------------------------------------------------------------ parameters

abc_quality_low    == <<0, 0, 5>>
abc_quality_medium == <<0, 5, 10>>
abc_quality_high   == <<5, 10, 10>>
abc_service_low    == <<0, 0, 5>>
abc_service_medium == <<0, 5, 10>>
abc_service_high   == <<5, 10, 10>>
abc_tip_low        == <<0, 0, 13>>
abc_tip_medium     == <<0, 13, 25>>
abc_tip_high       == <<13, 25, 25>>

\* st.slider(label, min_value, max_value, value, step)
SliderMin     == 0
SliderMax     == 10
SliderDefault == 5
SliderStep    == 1

SliderValues ==
    {v \in SliderMin..SliderMax : (v - SliderMin) % SliderStep = 0}

\* Positions are held in units of 1/XScale: 1/(c - b) of quality_low is the
\* granularity of every firing strength.
XScale == abc_quality_low[3] - abc_quality_low[2]

\* Degrees are held in units of 1/DegScale: the product of the side widths
\* 5, 13 and 12 (divisible by every width up to 6 as well), times XScale so
\* that a degree interpolated at a position in units of 1/XScale between two
\* samples of a curve is a whole number of units too.
DegScale ==
    XScale * XScale * (abc_tip_medium[2] - abc_tip_medium[1])
                    * (abc_tip_medium[3] - abc_tip_medium[2])

\* A name the running script has not bound yet.
Unbound == "unbound"

\* ------------------------------------------------------------ numpy

\* np.arange(start, stop, step) for integers, step > 0.
arange(start, stop, step) ==
    [i \in 1..((stop - start + step - 1) \div step) |-> start + (i - 1) * step]

\* np.fmax / np.fmin of two scalars (no NaN is ever produced here).
fmax(a, b) == IF a >= b THEN a ELSE b

fmin_wrong(a, b) == IF a >= b THEN a ELSE b

fmin(a, b) == IF a <= b THEN a ELSE b

\* np.fmin(scalar, array): broadcast over the array, a new array.
fmin_curve(level, curve) == [i \in DOMAIN curve |-> fmin(level, curve[i])]

maximum_wrong(out, curve) == curve

\* np.maximum(a, b) of two arrays of one length.
maximum(out, curve) == [i \in DOMAIN out |-> fmax(out[i], curve[i])]

\* np.zeros(n)
zeros(n) == [i \in 1..n |-> 0]

RECURSIVE SumSeq(_)
SumSeq(s) == IF s = <<>> THEN 0 ELSE Head(s) + SumSeq(Tail(s))

\* ------------------------------------------------------------ skfuzzy

trimf_falling_wrong(x, abc) ==
    LET a == abc[1]
        b == abc[2]
        c == abc[3]
    IN  [i \in DOMAIN x |->
           IF x[i] = b THEN DegScale
           ELSE IF a /= b /\ a < x[i] /\ x[i] < b
                THEN (DegScale * (x[i] - a)) \div (b - a)
           ELSE IF b /= c /\ b < x[i] /\ x[i] < c
                THEN (DegScale * (x[i] - b)) \div (c - b)
           ELSE 0]

trimf_no_peak(x, abc) ==
    LET a == abc[1]
        b == abc[2]
        c == abc[3]
    IN  [i \in DOMAIN x |->
           IF a /= b /\ a < x[i] /\ x[i] < b
                THEN (DegScale * (x[i] - a)) \div (b - a)
           ELSE IF b /= c /\ b < x[i] /\ x[i] < c
                THEN (DegScale * (c - x[i])) \div (c - b)
           ELSE 0]

\* fuzz.trimf(x, [a, b, c]), a <= b <= c: zeros; the rising side on
\* a < x < b when a /= b; the falling side on b < x < c when b /= c; then 1
\* wherever x = b.
trimf(x, abc) ==
    LET a == abc[1]
        b == abc[2]
        c == abc[3]
    IN  [i \in DOMAIN x |->
           IF x[i] = b THEN DegScale
           ELSE IF a /= b /\ a < x[i] /\ x[i] < b
                THEN (DegScale * (x[i] - a)) \div (b - a)
           ELSE IF b /= c /\ b < x[i] /\ x[i] < c
                THEN (DegScale * (c - x[i])) \div (c - b)
           ELSE 0]

interp_membership_shifted(x, xmf, XX) ==
    LET n == Len(x)
    IN  IF XX < XScale * x[1] \/ XX > XScale * x[n] THEN 0
        ELSE IF XX = XScale * x[n] THEN xmf[n]
        ELSE LET j == CHOOSE k \in 1..(n - 1) :
                         XScale * x[k] <= XX /\ XX < XScale * x[k + 1]
             IN  xmf[j + 1]

\* fuzz.interp_membership(x, xmf, xx): np.interp(xx, x, xmf, left=0.0,
\* right=0.0).  XX is the position in units of 1/XScale.  Outside the
\* universe the degree is 0; at the last sample it is that sample's degree;
\* otherwise linear between the bracketing samples x[j] <= xx < x[j+1].
\* Two neighbouring samples of a curve differ by a multiple of
\* XScale/DegScale, so the division below leaves no remainder.
interp_membership(x, xmf, XX) ==
    LET n == Len(x)
    IN  IF XX < XScale * x[1] \/ XX > XScale * x[n] THEN 0
        ELSE IF XX = XScale * x[n] THEN xmf[n]
        ELSE LET j == CHOOSE k \in 1..(n - 1) :
                         XScale * x[k] <= XX /\ XX < XScale * x[k + 1]
             IN  xmf[j] + ((xmf[j + 1] - xmf[j]) * (XX - XScale * x[j]))
                              \div (XScale * (x[j + 1] - x[j]))

\* The float64 value of x[i] + (y - xmf[i]) * (x[i+1] - x[i]) /
\* (xmf[i+1] - xmf[i]), as its distance in units in the last place from the
\* double nearest to the exact crossing point.  Over the tip curves and the
\* firing strengths 0, 1/5, .., 1 the float64 operations land on that double
\* except twice: on [2, 3] of a curve falling from 11/13 to 10/13 at level
\* 4/5 they give 2.5999999999999996 for 2.6, and on [7, 8] of a curve rising
\* from 7/13 to 8/13 at level 3/5 they give 7.799999999999999 for 7.8.
crossing_ulp(xi, mi, mj, y) ==
    IF <<xi, mi, mj, y>> \in
          {<<2, (11 * DegScale) \div 13, (10 * DegScale) \div 13, (4 * DegScale) \div 5>>,
           <<7, (7 * DegScale) \div 13, (8 * DegScale) \div 13, (3 * DegScale) \div 5>>}
    THEN -1
    ELSE 0

\* fuzz.interp_universe(x, xmf, y): the points where xmf crosses the level
\* y, found on every interval whose ends lie on different sides of y
\* (xmf > y for y = 0, xmf >= y otherwise), by linear interpolation.  A
\* point is <<position, rounding>>: two crossings at one exact position are
\* one float64 value only when they round alike.
interp_universe(x, xmf, y) ==
    LET above(i) == IF y = 0 THEN xmf[i] > y ELSE xmf[i] >= y
        idx == {i \in 1..(Len(x) - 1) : above(i) /= above(i + 1)}
    IN  {<<XScale * x[i]
             + ((y - xmf[i]) * XScale * (x[i + 1] - x[i]))
                   \div (xmf[i + 1] - xmf[i]),
           crossing_ulp(x[i], xmf[i], xmf[i + 1], y)>> : i \in idx}

\* A finite set of points <<position, rounding>> as the increasing array of
\* their positions: distinct float64 values stay distinct entries.
RECURSIVE SortedSeq(_)
SortedSeq(S) ==
    IF S = {} THEN <<>>
    ELSE LET lo == CHOOSE v \in S :
                      \A w \in S : v[1] < w[1] \/ (v[1] = w[1] /\ v[2] <= w[2])
         IN  <<lo[1]>> \o SortedSeq(S \ {lo})

centroid_no_offset(X, mfx) ==
    LET seg == 1..(Len(X) - 1)
        m == [i \in seg |->
                (X[i + 1] - X[i])
                  * ((X[i + 1] - X[i]) * (2 * mfx[i + 1] + mfx[i]))]
        ar == [i \in seg |-> (X[i + 1] - X[i]) * (mfx[i] + mfx[i + 1])]
    IN  [num |-> SumSeq(m), den |-> 3 * XScale * SumSeq(ar)]

\* fuzz.centroid(x, mfx): the sum over the intervals of moment * area over
\* the sum of area, each interval a rectangle, a triangle or a trapezoid.
\* With dX = X2 - X1 every shape has
\*    6 * moment * area = dX * (3*X1*(Y1+Y2) + dX*(2*Y2+Y1))   (/XScale^2)
\*    2 * area          = dX * (Y1+Y2)                         (/XScale)
\* so the centroid is num / den below, as an exact fraction.
centroid(X, mfx) ==
    LET seg == 1..(Len(X) - 1)
        m == [i \in seg |->
                (X[i + 1] - X[i])
                  * (3 * X[i] * (mfx[i] + mfx[i + 1])
                     + (X[i + 1] - X[i]) * (2 * mfx[i + 1] + mfx[i]))]
        ar == [i \in seg |-> (X[i + 1] - X[i]) * (mfx[i] + mfx[i + 1])]
    IN  [num |-> SumSeq(m), den |-> 3 * XScale * SumSeq(ar)]

\* ------------------------------------------------------------ skfuzzy.control

\* Position of term label l in a list [low, medium, high].
Labels == <<"low", "medium", "high">>

\* ControlSystemSimulation.input[...] = value with clip_to_bounds (the
\* default): the value is clipped to the universe's ends.
clip_input(universe, value) ==
    fmax(fmin(value, universe[Len(universe)]), universe[1])

\* CrispValueCalculator.fuzz(value): every term of an antecedent gets
\* interp_membership(universe, term.mf, value).
fuzz_terms(universe, terms, value) ==
    [l \in DOMAIN terms |-> interp_membership(universe, terms[l], XScale * value)]

\* rule1 = ctrl.Rule(quality['low'] | service['low'], tip['low'])
ctrl_rule1(quality_m, service_m) == fmax(quality_m.low, service_m.low)

ctrl_rule2_and(quality_m, service_m) == fmin(service_m.medium, quality_m.low)

\* rule2 = ctrl.Rule(service['medium'], tip['medium'])
ctrl_rule2(quality_m, service_m) == service_m.medium

\* rule3 = ctrl.Rule(service['high'] | quality['high'], tip['high'])
ctrl_rule3(quality_m, service_m) == fmax(service_m.high, quality_m.high)

\* The firing strength of rule r (1, 2, 3) for the slider values q, s: the
\* antecedent terms fuzzified, then the rule's expression; the weight is 1.
rule_firing(r, q_universe, q_terms, s_universe, s_terms, q, s) ==
    LET quality_m == fuzz_terms(q_universe, q_terms, clip_input(q_universe, q))
        service_m == fuzz_terms(s_universe, s_terms, clip_input(s_universe, s))
    IN  CASE r = 1 -> ctrl_rule1(quality_m, service_m)
          [] r = 2 -> ctrl_rule2(quality_m, service_m)
          [] r = 3 -> ctrl_rule3(quality_m, service_m)

\* The consequent term a rule writes to: rule 1 -> low, 2 -> medium, 3 -> high.
rule_consequent(r) == Labels[r]

\* One term's activation on the sample positions X: np.minimum(cut,
\* interp_membership(universe, term.mf, X)).
term_activation(universe, mf, cut, X) ==
    [i \in DOMAIN X |-> fmin(cut, interp_membership(universe, mf, X[i]))]

\* The universe's own samples as positions.
positions(universe) == [i \in DOMAIN universe |-> XScale * universe[i]]

\* CrispValueCalculator.find_memberships(): the universe upsampled by the
\* crossing points of every term that has a membership value (the labels
\* cut is defined on), each term's activation on it, and their aggregation
\* by np.maximum from zeros.
find_memberships(universe, terms, cut) ==
    LET active == DOMAIN cut
        add_universe ==
            UNION {interp_universe(universe, terms[l], cut[l]) : l \in active}
        X == SortedSeq({<<XScale * universe[i], 0>> : i \in DOMAIN universe}
                          \cup add_universe)
        term_mfs == [l \in active |-> term_activation(universe, terms[l], cut[l], X)]
        RECURSIVE agg(_, _)
        agg(out, ls) ==
            IF ls = {} THEN out
            ELSE LET l == CHOOSE k \in ls : TRUE
                 IN  agg(maximum(out, term_mfs[l]), ls \ {l})
    IN  [universe |-> X, term_mfs |-> term_mfs,
         output_mf |-> agg(zeros(Len(X)), active)]

\* The number of binary digits of n >= 0.
RECURSIVE bit_length(_)
bit_length(n) == IF n = 0 THEN 0 ELSE 1 + bit_length(n \div 2)

\* The binary expansion of r / den (0 <= r < den) carried n digits on:
\* <<the remainder, the last digit>>.
RECURSIVE shift_out(_, _, _, _)
shift_out(r, den, n, last) ==
    IF n = 0 THEN <<r, last>>
    ELSE shift_out((2 * r) % den, den, n - 1, (2 * r) \div den)

\* The binary expansion of r / den (0 < r < den) up to its first 1:
\* the remainder after that digit.
RECURSIVE leading_one(_, _)
leading_one(r, den) ==
    IF 2 * r >= den THEN 2 * r - den ELSE leading_one(2 * r, den)

\* The float64 nearest to num / den >= 0 (53 significant binary digits,
\* ties to even) against num / den itself: -1 below it, 0 equal, 1 above.
float_error_sign(frac) ==
    LET whole == frac.num \div frac.den
        r == frac.num % frac.den
        cut == IF whole > 0
               THEN shift_out(r, frac.den, 53 - bit_length(whole), whole % 2)
               ELSE IF r = 0 THEN <<0, 0>>
               ELSE shift_out(leading_one(r, frac.den), frac.den, 52, 1)
    IN  IF cut[1] = 0 THEN 0
        ELSE IF 2 * cut[1] < frac.den THEN -1
        ELSE IF 2 * cut[1] > frac.den THEN 1
        ELSE IF cut[2] = 0 THEN -1 ELSE 1

\* f"{value:.2f}" of the float64 nearest to num / den >= 0, in hundredths:
\* the float's exact value rounded to two decimals, ties to even.  A value
\* exactly halfway between two hundredths is a tie only when the float
\* holds it exactly; otherwise the float's own rounding decides.
format_2f(frac) ==
    LET r == frac.num % frac.den
        cents == 100 * (frac.num \div frac.den) + (100 * r) \div frac.den
        rest == (100 * r) % frac.den
        side == float_error_sign(frac)
    IN  IF 2 * rest < frac.den THEN cents
        ELSE IF 2 * rest > frac.den THEN cents + 1
        ELSE IF side < 0 THEN cents
        ELSE IF side > 0 THEN cents + 1
        ELSE IF cents % 2 = 0 THEN cents ELSE cents + 1

\* ------------------------------------------------------------ state

VARIABLES
    \* the two slider widgets (session state, kept across reruns)
    slider_quality, slider_service,
    \* lines 14-32: the universes and the membership curves
    quality_range, service_range, tip_range,
    quality_low, quality_medium, quality_high,
    service_low, service_medium, service_high,
    tip_low, tip_medium, tip_high,
    \* lines 37, 39: what the sliders returned to this run
    quality_score, service_score,
    \* lines 45-46
    quality_membership, service_membership,
    \* lines 78, 87, 165, 230: the figure last built
    fig,
    \* lines 97-103
    qual_lo, qual_md, qual_hi, serv_lo, serv_md, serv_hi,
    \* lines 106-112
    active_rule1, active_rule3,
    tip_activation_lo, tip_activation_md, tip_activation_hi,
    \* lines 199-225: the simulation after compute()
    tipping_sim,
    \* what the st.* calls of this run have put on the page, in order
    page,
    \* the line of the next statement of the running script
    pc,
    \* "running", "done", or "failed" when compute() raised
    run,
    \* a triangle under evaluation (SpecTrimf)
    tri_x, tri_abc, tri_y,
    \* a rule base being assembled (SpecAgg)
    agg_rules, agg_prev, agg_output

widgets == <<slider_quality, slider_service>>

config == <<quality_range, service_range, tip_range,
            quality_low, quality_medium, quality_high,
            service_low, service_medium, service_high,
            tip_low, tip_medium, tip_high>>

sliders == <<quality_score, service_score>>

memberships == <<quality_membership, service_membership>>

degrees == <<qual_lo, qual_md, qual_hi, serv_lo, serv_md, serv_hi>>

activations == <<active_rule1, active_rule3,
                 tip_activation_lo, tip_activation_md, tip_activation_hi>>

tri_vars == <<tri_x, tri_abc, tri_y>>

agg_vars == <<agg_rules, agg_prev, agg_output>>

vars == <<widgets, config, sliders, memberships, fig, degrees, activations,
          tipping_sim, page, pc, run, tri_vars, agg_vars>>

\* Lines 14-32 as the values they bind.
DefineConfig ==
    /\ quality_range' = arange(0, 11, 1)
    /\ service_range' = arange(0, 11, 1)
    /\ tip_range' = arange(0, 26, 1)
    /\ quality_low' = trimf(quality_range', abc_quality_low)
    /\ quality_medium' = trimf(quality_range', abc_quality_medium)
    /\ quality_high' = trimf(quality_range', abc_quality_high)
    /\ service_low' = trimf(service_range', abc_service_low)
    /\ service_medium' = trimf(service_range', abc_service_medium)
    /\ service_high' = trimf(service_range', abc_service_high)
    /\ tip_low' = trimf(tip_range', abc_tip_low)
    /\ tip_medium' = trimf(tip_range', abc_tip_medium)
    /\ tip_high' = trimf(tip_range', abc_tip_high)

\* The configuration as lines 14-32 leave it.
InitConfig ==
    /\ quality_range = arange(0, 11, 1)
    /\ service_range = arange(0, 11, 1)
    /\ tip_range = arange(0, 26, 1)
    /\ quality_low = trimf(quality_range, abc_quality_low)
    /\ quality_medium = trimf(quality_range, abc_quality_medium)
    /\ quality_high = trimf(quality_range, abc_quality_high)
    /\ service_low = trimf(service_range, abc_service_low)
    /\ service_medium = trimf(service_range, abc_service_medium)
    /\ service_high = trimf(service_range, abc_service_high)
    /\ tip_low = trimf(tip_range, abc_tip_low)
    /\ tip_medium = trimf(tip_range, abc_tip_medium)
    /\ tip_high = trimf(tip_range, abc_tip_high)

\* The names of lines 14-32, unbound.
UnboundConfig ==
    /\ quality_range = Unbound /\ service_range = Unbound /\ tip_range = Unbound
    /\ quality_low = Unbound /\ quality_medium = Unbound /\ quality_high = Unbound
    /\ service_low = Unbound /\ service_medium = Unbound /\ service_high = Unbound
    /\ tip_low = Unbound /\ tip_medium = Unbound /\ tip_high = Unbound

\* Every name the script binds from line 45 on, unbound.
UnboundRun ==
    /\ quality_membership = Unbound /\ service_membership = Unbound
    /\ fig = Unbound
    /\ qual_lo = Unbound /\ qual_md = Unbound /\ qual_hi = Unbound
    /\ serv_lo = Unbound /\ serv_md = Unbound /\ serv_hi = Unbound
    /\ active_rule1 = Unbound /\ active_rule3 = Unbound
    /\ tip_activation_lo = Unbound /\ tip_activation_md = Unbound
    /\ tip_activation_hi = Unbound
    /\ tipping_sim = Unbound

\* A rerun starts at line 8 with a fresh namespace and an empty page.
ResetRun ==
    /\ quality_range' = Unbound /\ service_range' = Unbound /\ tip_range' = Unbound
    /\ quality_low' = Unbound /\ quality_medium' = Unbound /\ quality_high' = Unbound
    /\ service_low' = Unbound /\ service_medium' = Unbound /\ service_high' = Unbound
    /\ tip_low' = Unbound /\ tip_medium' = Unbound /\ tip_high' = Unbound
    /\ quality_score' = Unbound /\ service_score' = Unbound
    /\ quality_membership' = Unbound /\ service_membership' = Unbound
    /\ fig' = Unbound
    /\ qual_lo' = Unbound /\ qual_md' = Unbound /\ qual_hi' = Unbound
    /\ serv_lo' = Unbound /\ serv_md' = Unbound /\ serv_hi' = Unbound
    /\ active_rule1' = Unbound /\ active_rule3' = Unbound
    /\ tip_activation_lo' = Unbound /\ tip_activation_md' = Unbound
    /\ tip_activation_hi' = Unbound
    /\ tipping_sim' = Unbound
    /\ page' = <<>>
    /\ pc' = 8
    /\ run' = "running"

IdleTri == tri_x = <<>> /\ tri_abc = <<>> /\ tri_y = <<>>

IdleAgg == agg_rules = {} /\ agg_prev = <<>> /\ agg_output = <<>>

\* The first run is about to start: both sliders at their default value,
\* nothing bound, nothing on the page.
Init ==
    /\ slider_quality = SliderDefault
    /\ slider_service = SliderDefault
    /\ UnboundConfig
    /\ quality_score = Unbound
    /\ service_score = Unbound
    /\ UnboundRun
    /\ page = <<>>
    /\ pc = 8
    /\ run = "running"
    /\ IdleTri
    /\ IdleAgg

\* ------------------------------------------------------------ the script

\* The script is running and its next statement is on this line.
At(line) == run = "running" /\ pc = line

\* The element an st.slider call puts on the page.
slider(label, value) == [kind |-> "slider", label |-> label, value |-> value]

\* The element an st.pyplot call puts on the page.
pyplot(figure) == [kind |-> "pyplot", fig |-> figure]

\* f"{degree:.2f}" of a degree.
degree_2f(degree) == format_2f([num |-> degree, den |-> DegScale])

\* The element a metric call puts on the page.
metric(label, degree) ==
    [kind |-> "metric", label |-> label, text |-> degree_2f(degree)]

\* def get_membership_values(x_range, functions, value)
get_membership_values(x_range, functions, value) ==
    [k \in DOMAIN functions |->
        interp_membership(x_range, functions[k], XScale * value)]

\* def plot_membership(x, functions, score, title): the three curves and
\* the score's vertical line.
plot_membership(x, functions, score, title) ==
    [x |-> x, functions |-> functions, score |-> score, title |-> title]

\* def plot_fuzzy_output_activity(...): the three activations filled, the
\* three tip curves dashed.
plot_fuzzy_output_activity(x_tip, tip_lo, tip_md, tip_hi, activation_lo, activation_md, activation_hi) ==
    [x_tip |-> x_tip, tip_lo |-> tip_lo, tip_md |-> tip_md, tip_hi |-> tip_hi,
     tip0 |-> zeros(Len(x_tip)),
     activation_lo |-> activation_lo, activation_md |-> activation_md,
     activation_hi |-> activation_hi]

\* def plot_final_tip_output(x_tip, tip_lo, tip_md, tip_hi, final_tip): the
\* three tip curves and the tip's vertical line with its label.
plot_final_tip_output(x_tip, tip_lo, tip_md, tip_hi, final_tip) ==
    [x_tip |-> x_tip, tip_lo |-> tip_lo, tip_md |-> tip_md, tip_hi |-> tip_hi,
     final_tip |-> final_tip, label |-> format_2f(final_tip)]

manual_rule3_wrong(hi_q, hi_s) == fmin(hi_q, hi_s)

\* active_rule1 = np.fmax(qual_lo, serv_lo)
manual_rule1(lo_q, lo_s) == fmax(lo_q, lo_s)

\* active_rule3 = np.fmax(qual_hi, serv_hi)
manual_rule3(hi_q, hi_s) == fmax(hi_q, hi_s)

\* Lines 199-225: the variables, terms and rules, a new simulation, the two
\* inputs, compute().  error: defuzz found the aggregated curve to sum to 0
\* and raised.
simulate(q, s) ==
    LET quality_terms == [low |-> quality_low, medium |-> quality_medium,
                          high |-> quality_high]
        service_terms == [low |-> service_low, medium |-> service_medium,
                          high |-> service_high]
        tip_terms == [low |-> tip_low, medium |-> tip_medium, high |-> tip_high]
        firing == [r \in 1..3 |->
                     rule_firing(r, quality_range, quality_terms,
                                 service_range, service_terms, q, s)]
        cut == [l \in {rule_consequent(r) : r \in 1..3} |->
                  LET r == CHOOSE k \in 1..3 : rule_consequent(k) = l
                  IN  firing[r]]
        found == find_memberships(tip_range, tip_terms, cut)
        failed == SumSeq(found.output_mf) = 0
    IN  [input |-> [quality |-> clip_input(quality_range, q),
                    service |-> clip_input(service_range, s)],
         firing |-> firing,
         cut |-> cut,
         universe |-> found.universe,
         term_mfs |-> found.term_mfs,
         output_mf |-> found.output_mf,
         error |-> failed,
         output |-> IF failed THEN [num |-> 0, den |-> 1]
                    ELSE centroid(found.universe, found.output_mf)]

\* Line 8: st.set_page_config.
SetPageConfig ==
    /\ At(8)
    /\ page' = Append(page, [kind |-> "page_config", layout |-> "centered"])
    /\ pc' = 9
    /\ UNCHANGED <<widgets, config, sliders, memberships, fig, degrees,
                   activations, tipping_sim, run, tri_vars, agg_vars>>

\* Line 9: st.title.
Title ==
    /\ At(9)
    /\ page' = Append(page, [kind |-> "title"])
    /\ pc' = 10
    /\ UNCHANGED <<widgets, config, sliders, memberships, fig, degrees,
                   activations, tipping_sim, run, tri_vars, agg_vars>>

\* Line 10: st.divider.
Divider ==
    /\ At(10)
    /\ page' = Append(page, [kind |-> "divider"])
    /\ pc' = 11
    /\ UNCHANGED <<widgets, config, sliders, memberships, fig, degrees,
                   activations, tipping_sim, run, tri_vars, agg_vars>>

\* Line 11: st.header.
Header ==
    /\ At(11)
    /\ page' = Append(page, [kind |-> "header"])
    /\ pc' = 14
    /\ UNCHANGED <<widgets, config, sliders, memberships, fig, degrees,
                   activations, tipping_sim, run, tri_vars, agg_vars>>

\* Lines 14-32: the universes and the nine curves.
Define ==
    /\ At(14)
    /\ DefineConfig
    /\ pc' = 35
    /\ UNCHANGED <<widgets, sliders, memberships, fig, degrees, activations,
                   tipping_sim, page, run, tri_vars, agg_vars>>

\* Line 35: st.columns(2).
InputColumns ==
    /\ At(35)
    /\ page' = Append(page, [kind |-> "columns", n |-> 2])
    /\ pc' = 37
    /\ UNCHANGED <<widgets, config, sliders, memberships, fig, degrees,
                   activations, tipping_sim, run, tri_vars, agg_vars>>

\* Lines 36-37: st.slider shows the quality slider and returns its value.
ReadQuality ==
    /\ At(37)
    /\ quality_score' = slider_quality
    /\ page' = Append(page, slider("quality", slider_quality))
    /\ pc' = 39
    /\ UNCHANGED service_score
    /\ UNCHANGED <<widgets, config, memberships, fig, degrees, activations,
                   tipping_sim, run, tri_vars, agg_vars>>

\* Lines 38-39: st.slider shows the service slider and returns its value.
ReadService ==
    /\ At(39)
    /\ service_score' = slider_service
    /\ page' = Append(page, slider("service", slider_service))
    /\ pc' = 42
    /\ UNCHANGED quality_score
    /\ UNCHANGED <<widgets, config, memberships, fig, degrees, activations,
                   tipping_sim, run, tri_vars, agg_vars>>

\* Lines 42-74: the membership degrees of the two scores (and two defs).
Memberships ==
    /\ At(42)
    /\ quality_membership' = get_membership_values(quality_range,
           <<quality_low, quality_medium, quality_high>>, quality_score)
    /\ service_membership' = get_membership_values(service_range,
           <<service_low, service_medium, service_high>>, service_score)
    /\ pc' = 76
    /\ UNCHANGED <<widgets, config, sliders, fig, degrees, activations,
                   tipping_sim, page, run, tri_vars, agg_vars>>

\* Line 76: st.columns(2).
ChartColumns ==
    /\ At(76)
    /\ page' = Append(page, [kind |-> "columns", n |-> 2])
    /\ pc' = 78
    /\ UNCHANGED <<widgets, config, sliders, memberships, fig, degrees,
                   activations, tipping_sim, run, tri_vars, agg_vars>>

\* Lines 77-78: the quality figure is built.
PlotQuality ==
    /\ At(78)
    /\ fig' = plot_membership(quality_range,
                 <<quality_low, quality_medium, quality_high>>,
                 quality_score, "Food Quality")
    /\ pc' = 79
    /\ UNCHANGED <<widgets, config, sliders, memberships, degrees,
                   activations, tipping_sim, page, run, tri_vars,
                   agg_vars>>

\* Line 79: st.pyplot(fig).
ShowQualityFigure ==
    /\ At(79)
    /\ page' = Append(page, pyplot(fig))
    /\ pc' = 80
    /\ UNCHANGED <<widgets, config, sliders, memberships, fig, degrees,
                   activations, tipping_sim, run, tri_vars, agg_vars>>

\* Line 80: st.subheader.
QualitySubheader ==
    /\ At(80)
    /\ page' = Append(page, [kind |-> "subheader"])
    /\ pc' = 81
    /\ UNCHANGED <<widgets, config, sliders, memberships, fig, degrees,
                   activations, tipping_sim, run, tri_vars, agg_vars>>

\* Line 81: st.columns(3).
QualityColumns ==
    /\ At(81)
    /\ page' = Append(page, [kind |-> "columns", n |-> 3])
    /\ pc' = 82
    /\ UNCHANGED <<widgets, config, sliders, memberships, fig, degrees,
                   activations, tipping_sim, run, tri_vars, agg_vars>>

\* Line 82: qc1.metric.
QualityBad ==
    /\ At(82)
    /\ page' = Append(page, metric("Bad", quality_membership[1]))
    /\ pc' = 83
    /\ UNCHANGED <<widgets, config, sliders, memberships, fig, degrees,
                   activations, tipping_sim, run, tri_vars, agg_vars>>

\* Line 83: qc2.metric.
QualityDecent ==
    /\ At(83)
    /\ page' = Append(page, metric("Decent", quality_membership[2]))
    /\ pc' = 84
    /\ UNCHANGED <<widgets, config, sliders, memberships, fig, degrees,
                   activations, tipping_sim, run, tri_vars, agg_vars>>

\* Line 84: qc3.metric.
QualityGreat ==
    /\ At(84)
    /\ page' = Append(page, metric("Great", quality_membership[3]))
    /\ pc' = 87
    /\ UNCHANGED <<widgets, config, sliders, memberships, fig, degrees,
                   activations, tipping_sim, run, tri_vars, agg_vars>>

\* Lines 86-87: the service figure is built.
PlotService ==
    /\ At(87)
    /\ fig' = plot_membership(service_range,
                 <<service_low, service_medium, service_high>>,
                 service_score, "Service Quality")
    /\ pc' = 88
    /\ UNCHANGED <<widgets, config, sliders, memberships, degrees,
                   activations, tipping_sim, page, run, tri_vars,
                   agg_vars>>

\* Line 88: st.pyplot(fig).
ShowServiceFigure ==
    /\ At(88)
    /\ page' = Append(page, pyplot(fig))
    /\ pc' = 89
    /\ UNCHANGED <<widgets, config, sliders, memberships, fig, degrees,
                   activations, tipping_sim, run, tri_vars, agg_vars>>

\* Line 89: st.subheader.
ServiceSubheader ==
    /\ At(89)
    /\ page' = Append(page, [kind |-> "subheader"])
    /\ pc' = 90
    /\ UNCHANGED <<widgets, config, sliders, memberships, fig, degrees,
                   activations, tipping_sim, run, tri_vars, agg_vars>>

\* Line 90: st.columns(3).
ServiceColumns ==
    /\ At(90)
    /\ page' = Append(page, [kind |-> "columns", n |-> 3])
    /\ pc' = 91
    /\ UNCHANGED <<widgets, config, sliders, memberships, fig, degrees,
                   activations, tipping_sim, run, tri_vars, agg_vars>>

\* Line 91: sc1.metric.
ServiceBad ==
    /\ At(91)
    /\ page' = Append(page, metric("Bad", service_membership[1]))
    /\ pc' = 92
    /\ UNCHANGED <<widgets, config, sliders, memberships, fig, degrees,
                   activations, tipping_sim, run, tri_vars, agg_vars>>

\* Line 92: sc2.metric.
ServiceDecent ==
    /\ At(92)
    /\ page' = Append(page, metric("Decent", service_membership[2]))
    /\ pc' = 93
    /\ UNCHANGED <<widgets, config, sliders, memberships, fig, degrees,
                   activations, tipping_sim, run, tri_vars, agg_vars>>

\* Line 93: sc3.metric.
ServiceGreat ==
    /\ At(93)
    /\ page' = Append(page, metric("Great", service_membership[3]))
    /\ pc' = 97
    /\ UNCHANGED <<widgets, config, sliders, memberships, fig, degrees,
                   activations, tipping_sim, run, tri_vars, agg_vars>>

\* Lines 97-103: the six degrees the rules use.
Interpolate ==
    /\ At(97)
    /\ qual_lo' = interp_membership(quality_range, quality_low, XScale * quality_score)
    /\ qual_md' = interp_membership(quality_range, quality_medium, XScale * quality_score)
    /\ qual_hi' = interp_membership(quality_range, quality_high, XScale * quality_score)
    /\ serv_lo' = interp_membership(service_range, service_low, XScale * service_score)
    /\ serv_md' = interp_membership(service_range, service_medium, XScale * service_score)
    /\ serv_hi' = interp_membership(service_range, service_high, XScale * service_score)
    /\ pc' = 106
    /\ UNCHANGED <<widgets, config, sliders, memberships, fig, activations,
                   tipping_sim, page, run, tri_vars, agg_vars>>

ApplyRulesInPlace ==
    /\ At(106)
    /\ active_rule1' = manual_rule1(qual_lo, serv_lo)
    /\ tip_activation_lo' = fmin_curve(active_rule1', tip_low)
    /\ tip_low' = tip_activation_lo'
    /\ tip_activation_md' = fmin_curve(serv_md, tip_medium)
    /\ active_rule3' = manual_rule3(qual_hi, serv_hi)
    /\ tip_activation_hi' = fmin_curve(active_rule3', tip_high)
    /\ pc' = 142
    /\ UNCHANGED <<quality_range, service_range, tip_range,
                   quality_low, quality_medium, quality_high,
                   service_low, service_medium, service_high,
                   tip_medium, tip_high>>
    /\ UNCHANGED <<widgets, sliders, memberships, fig, degrees, tipping_sim,
                   page, run, tri_vars, agg_vars>>

\* Lines 106-140: the rules applied by hand (and a def).
ApplyRules ==
    /\ At(106)
    /\ active_rule1' = manual_rule1(qual_lo, serv_lo)
    /\ tip_activation_lo' = fmin_curve(active_rule1', tip_low)
    /\ tip_activation_md' = fmin_curve(serv_md, tip_medium)
    /\ active_rule3' = manual_rule3(qual_hi, serv_hi)
    /\ tip_activation_hi' = fmin_curve(active_rule3', tip_high)
    /\ pc' = 142
    /\ UNCHANGED <<widgets, config, sliders, memberships, fig, degrees,
                   tipping_sim, page, run, tri_vars, agg_vars>>

\* Line 142: st.expander.
RulesExpander ==
    /\ At(142)
    /\ page' = Append(page, [kind |-> "expander"])
    /\ pc' = 143
    /\ UNCHANGED <<widgets, config, sliders, memberships, fig, degrees,
                   activations, tipping_sim, run, tri_vars, agg_vars>>

\* Lines 143-161: st.markdown, the rules in words.
DescribeRules ==
    /\ At(143)
    /\ page' = Append(page, [kind |-> "markdown"])
    /\ pc' = 164
    /\ UNCHANGED <<widgets, config, sliders, memberships, fig, degrees,
                   activations, tipping_sim, run, tri_vars, agg_vars>>

\* Line 164: st.expander.
ActivityExpander ==
    /\ At(164)
    /\ page' = Append(page, [kind |-> "expander"])
    /\ pc' = 165
    /\ UNCHANGED <<widgets, config, sliders, memberships, fig, degrees,
                   activations, tipping_sim, run, tri_vars, agg_vars>>

\* Lines 165-169: the activation figure is built.
PlotActivity ==
    /\ At(165)
    /\ fig' = plot_fuzzy_output_activity(tip_range,
                 tip_low, tip_medium, tip_high,
                 tip_activation_lo, tip_activation_md, tip_activation_hi)
    /\ pc' = 170
    /\ UNCHANGED <<widgets, config, sliders, memberships, degrees,
                   activations, tipping_sim, page, run, tri_vars,
                   agg_vars>>

\* Lines 170-195: st.pyplot(fig) (and a def).
ShowActivity ==
    /\ At(170)
    /\ page' = Append(page, pyplot(fig))
    /\ pc' = 197
    /\ UNCHANGED <<widgets, config, sliders, memberships, fig, degrees,
                   activations, tipping_sim, run, tri_vars, agg_vars>>

\* Line 197: st.expander.
TipExpander ==
    /\ At(197)
    /\ page' = Append(page, [kind |-> "expander"])
    /\ pc' = 199
    /\ UNCHANGED <<widgets, config, sliders, memberships, fig, degrees,
                   activations, tipping_sim, run, tri_vars, agg_vars>>

\* Lines 199-225: the control system built and computed for the two scores;
\* an exception of compute() at line 225 ends the run.
Compute ==
    /\ At(199)
    /\ tipping_sim' = simulate(quality_score, service_score)
    /\ pc' = IF tipping_sim'.error THEN 225 ELSE 227
    /\ run' = IF tipping_sim'.error THEN "failed" ELSE "running"
    /\ UNCHANGED <<widgets, config, sliders, memberships, fig, degrees,
                   activations, page, tri_vars, agg_vars>>

\* Line 227: st.success, the tip as text.
ShowTip ==
    /\ At(227)
    /\ page' = Append(page, [kind |-> "success", text |-> format_2f(tipping_sim.output)])
    /\ pc' = 230
    /\ UNCHANGED <<widgets, config, sliders, memberships, fig, degrees,
                   activations, tipping_sim, run, tri_vars, agg_vars>>

\* Line 230: the final figure is built.
PlotFinal ==
    /\ At(230)
    /\ fig' = plot_final_tip_output(tip_range, tip_low, tip_medium, tip_high,
                                     tipping_sim.output)
    /\ pc' = 231
    /\ UNCHANGED <<widgets, config, sliders, memberships, degrees,
                   activations, tipping_sim, page, run, tri_vars,
                   agg_vars>>

\* Line 231: st.pyplot(fig); the script ends.
ShowFinal ==
    /\ At(231)
    /\ page' = Append(page, pyplot(fig))
    /\ pc' = 232
    /\ run' = "done"
    /\ UNCHANGED <<widgets, config, sliders, memberships, fig, degrees,
                   activations, tipping_sim, tri_vars, agg_vars>>

\* The lines of the script's 27 st.* calls.  Streamlit stops the script at
\* its next st.* call once a widget has changed; the statements between two
\* st.* calls run to the next call first.
RerunPoints ==
    {8, 9, 10, 11, 35, 37, 39, 76, 79, 80, 81, 82, 83, 84, 88, 89, 90, 91, 92,
     93, 142, 143, 164, 170, 197, 227, 231}

\* A slider moved now starts a rerun now: the script is about to make an
\* st.* call, or it has ended.
CanRerun == run /= "running" \/ pc \in RerunPoints

\* The user moves the quality slider: the widget takes the new value, the
\* run in progress (if any) is abandoned with its page as far as it got, and
\* the script starts again from the top.
MoveQuality(v) ==
    /\ CanRerun
    /\ v /= slider_quality
    /\ slider_quality' = v
    /\ UNCHANGED slider_service
    /\ ResetRun
    /\ UNCHANGED <<tri_vars, agg_vars>>

\* The user moves the service slider.
MoveService(v) ==
    /\ CanRerun
    /\ v /= slider_service
    /\ slider_service' = v
    /\ UNCHANGED slider_quality
    /\ ResetRun
    /\ UNCHANGED <<tri_vars, agg_vars>>

Next ==
    \/ SetPageConfig
    \/ Title
    \/ Divider
    \/ Header
    \/ Define
    \/ InputColumns
    \/ ReadQuality
    \/ ReadService
    \/ Memberships
    \/ ChartColumns
    \/ PlotQuality
    \/ ShowQualityFigure
    \/ QualitySubheader
    \/ QualityColumns
    \/ QualityBad
    \/ QualityDecent
    \/ QualityGreat
    \/ PlotService
    \/ ShowServiceFigure
    \/ ServiceSubheader
    \/ ServiceColumns
    \/ ServiceBad
    \/ ServiceDecent
    \/ ServiceGreat
    \/ Interpolate
    \/ ApplyRules
    \/ RulesExpander
    \/ DescribeRules
    \/ ActivityExpander
    \/ PlotActivity
    \/ ShowActivity
    \/ TipExpander
    \/ Compute
    \/ ShowTip
    \/ PlotFinal
    \/ ShowFinal
    \/ \E v \in SliderValues : MoveQuality(v)
    \/ \E v \in SliderValues : MoveService(v)

Spec == Init /\ [][Next]_vars

\* ------------------------------------------------------------ one triangle

\* The largest parameter of the triangles drawn besides the program's own.
MaxParam == 5

\* (universe, abc) pairs: every a <= b <= c over 0..MaxParam in unit steps,
\* and the program's own triangles over their universes.
TriangleInputs ==
    {<<arange(0, MaxParam + 1, 1), <<a, b, c>>>> :
        a \in 0..MaxParam, b \in 0..MaxParam, c \in 0..MaxParam}
    \cup {<<arange(0, 11, 1), abc>> :
            abc \in {abc_quality_low, abc_quality_medium, abc_quality_high,
                     abc_service_low, abc_service_medium, abc_service_high}}
    \cup {<<arange(0, 26, 1), abc>> :
            abc \in {abc_tip_low, abc_tip_medium, abc_tip_high}}

InitTrimf ==
    /\ slider_quality = SliderDefault
    /\ slider_service = SliderDefault
    /\ UnboundConfig
    /\ quality_score = Unbound
    /\ service_score = Unbound
    /\ UnboundRun
    /\ page = <<>>
    /\ pc = 8
    /\ run = "running"
    /\ IdleAgg
    /\ \E t \in TriangleInputs :
          /\ t[2][1] <= t[2][2] /\ t[2][2] <= t[2][3]
          /\ tri_x = t[1]
          /\ tri_abc = t[2]
    /\ tri_y = <<>>

\* y = fuzz.trimf(x, abc)
EvalTrimf ==
    /\ tri_y = <<>>
    /\ tri_y' = trimf(tri_x, tri_abc)
    /\ UNCHANGED <<widgets, config, sliders, memberships, fig, degrees,
                   activations, tipping_sim, page, pc, run,
                   tri_x, tri_abc, agg_vars>>

NextTrimf == EvalTrimf

SpecTrimf == InitTrimf /\ [][NextTrimf]_vars

\* ------------------------------------------------------------ one rule base

\* The tip curve a rule's consequent names.
tip_term(r) ==
    CASE r = 1 -> tip_low
      [] r = 2 -> tip_medium
      [] r = 3 -> tip_high

\* The firing strength of rule r of the control system for the sliders.
firing_of(r) ==
    rule_firing(r, quality_range,
                [low |-> quality_low, medium |-> quality_medium,
                 high |-> quality_high],
                service_range,
                [low |-> service_low, medium |-> service_medium,
                 high |-> service_high],
                quality_score, service_score)

\* A curve given on the positions X, read at the universe's own samples.
at_samples(X, curve, universe) ==
    [i \in DOMAIN universe |->
        curve[CHOOSE k \in DOMAIN X : X[k] = XScale * universe[i]]]

\* The aggregated tip curve of the control system made of the rules in R,
\* at the samples of the tip universe.
aggregated_of(R) ==
    LET cut == [l \in {rule_consequent(r) : r \in R} |->
                  firing_of(CHOOSE k \in R : rule_consequent(k) = l)]
        found == find_memberships(tip_range,
                     [low |-> tip_low, medium |-> tip_medium, high |-> tip_high],
                     cut)
    IN  at_samples(found.universe, found.output_mf, tip_range)

\* A run that has read the sliders, wherever the user left them.
InitAgg ==
    /\ slider_quality \in SliderValues
    /\ slider_service \in SliderValues
    /\ InitConfig
    /\ quality_score = slider_quality
    /\ service_score = slider_service
    /\ UnboundRun
    /\ page = <<[kind |-> "page_config", layout |-> "centered"],
                [kind |-> "title"], [kind |-> "divider"], [kind |-> "header"],
                [kind |-> "columns", n |-> 2],
                slider("quality", slider_quality),
                slider("service", slider_service)>>
    /\ pc = 42
    /\ run = "running"
    /\ IdleTri
    /\ agg_rules = {}
    /\ agg_prev = zeros(Len(tip_range))
    /\ agg_output = zeros(Len(tip_range))

\* One more rule targeting tip joins the rule base: its clipped curve is
\* aggregated into the output by np.maximum.
AddRule(r) ==
    /\ r \notin agg_rules
    /\ agg_rules' = agg_rules \cup {r}
    /\ agg_prev' = agg_output
    /\ agg_output' = maximum(agg_output,
                        term_activation(tip_range, tip_term(r), firing_of(r),
                                        positions(tip_range)))
    /\ UNCHANGED <<widgets, config, sliders, memberships, fig, degrees,
                   activations, tipping_sim, page, pc, run,
                   tri_vars>>

NextAgg == \E r \in 1..3 : AddRule(r)

SpecAgg == InitAgg /\ [][NextAgg]_vars

\* ------------------------------------------------------------ properties

One == DegScale

\* The script has run lines 14-32 / 42-46 / 97-103 / 106-112 / 199-225.
AfterDefine == pc > 14

AfterMemberships == pc > 42

AfterInterpolate == pc > 97

AfterRules == pc > 106

AfterCompute == pc > 199 /\ run /= "failed"

Done == run = "done"

\* The texts of the three quality metrics (lines 82-84) and of the three
\* service metrics (lines 91-93) on the page, once compute() has run.
quality_metrics == <<page[12].text, page[13].text, page[14].text>>

service_metrics == <<page[18].text, page[19].text, page[20].text>>

\* The activation figure on the page (line 170), once shown.
fig_activity == page[24].fig

\* The tip's text (line 227) and the final figure (line 231) of a
\* completed run.
shown_tip == page[26].text

fig_final == page[27].fig

Reference == quality_score = 5 /\ service_score = 5

\* The pointwise maximum of the three activation curves applied by hand.
ManualAggregated ==
    maximum(maximum(tip_activation_lo, tip_activation_md), tip_activation_hi)

\* The simulation's aggregated curve at the samples of the tip universe.
SimAggregated ==
    at_samples(tipping_sim.universe, tipping_sim.output_mf, tip_range)

\* One term's clipped curve of the simulation at the tip universe's samples.
SimActivation(l) ==
    at_samples(tipping_sim.universe, tipping_sim.term_mfs[l], tip_range)

\* sum(x_i * aggregated(x_i)) / sum(aggregated(x_i)) over the universe's
\* samples, as a fraction.
centroid_of_samples(universe, mfx) ==
    [num |-> SumSeq([i \in DOMAIN universe |-> universe[i] * mfx[i]]),
     den |-> SumSeq(mfx)]

\* C1: with quality = 5 and service = 5 both variables fuzzify to
\* medium = 1, low = high = 0; rule 1 and rule 3 fire at 0 and rule 2 at 1;
\* and the pointwise maximum of the three clipped curves is the tip_medium
\* curve at every sample of the tip universe (by hand and in the simulation).
C1_ReferenceInference ==
    (AfterCompute /\ Reference) =>
        /\ quality_membership = <<0, One, 0>>
        /\ service_membership = <<0, One, 0>>
        /\ quality_metrics = <<0, 100, 0>>
        /\ service_metrics = <<0, 100, 0>>
        /\ <<qual_lo, qual_md, qual_hi>> = <<0, One, 0>>
        /\ <<serv_lo, serv_md, serv_hi>> = <<0, One, 0>>
        /\ <<active_rule1, serv_md, active_rule3>> = <<0, One, 0>>
        /\ tipping_sim.firing = <<0, One, 0>>
        /\ ManualAggregated = tip_medium
        /\ SimAggregated = tip_medium

C1_Witness ==
    /\ Done /\ Reference
    /\ serv_md = One
    /\ ManualAggregated[14] = One
    /\ tip_range[14] = 13

\* C2 as stated: with quality = 5 and service = 5 the defuzzified tip is
\* approximately 13.0 (13.0 to one decimal: within 0.05 of it).
C2_TipIsThirteen ==
    (Done /\ Reference) =>
        LET t == tipping_sim.output
            d == IF t.num >= 13 * t.den THEN t.num - 13 * t.den
                 ELSE 13 * t.den - t.num
        IN  20 * d <= t.den

\* C2 amended: with quality = 5 and service = 5 the defuzzified tip is
\* 38/3 = (0 + 13 + 25) / 3, shown as 12.67; the sum formula over the
\* samples 0..25 gives 38/3 as well.  [0, 13, 25] is not symmetric and its
\* centroid lies below its apex.
C2_TipIsThirtyEightThirds ==
    (Done /\ Reference) =>
        /\ ~tipping_sim.error
        /\ 3 * tipping_sim.output.num = 38 * tipping_sim.output.den
        /\ shown_tip = 1267
        /\ LET c == centroid_of_samples(tip_range, SimAggregated)
           IN  3 * c.num = 38 * c.den /\ c.den > 0

C2_Witness ==
    /\ Done /\ Reference
    /\ tipping_sim.output.den > 0
    /\ tipping_sim.output.num < 13 * tipping_sim.output.den
    /\ SimAggregated = tip_medium

\* The degree of the evaluated triangle at universe value v.
TriAt(v) == tri_y[CHOOSE i \in DOMAIN tri_x : tri_x[i] = v]

TriMonotone ==
    \A i, j \in DOMAIN tri_x :
        /\ (tri_abc[1] <= tri_x[i] /\ tri_x[i] <= tri_x[j] /\ tri_x[j] <= tri_abc[2])
              => tri_y[i] <= tri_y[j]
        /\ (tri_abc[2] <= tri_x[i] /\ tri_x[i] <= tri_x[j] /\ tri_x[j] <= tri_abc[3])
              => tri_y[i] >= tri_y[j]

\* C3 as stated: for every triangle a <= b <= c, shoulders included,
\* evaluate(a) = 0, evaluate(b) = 1, evaluate(c) = 0, non-decreasing on
\* [a, b] and non-increasing on [b, c].
C3_EndsAreZero ==
    tri_y /= <<>> =>
        /\ TriAt(tri_abc[1]) = 0
        /\ TriAt(tri_abc[2]) = One
        /\ TriAt(tri_abc[3]) = 0
        /\ TriMonotone

\* C3 amended: evaluate(b) = 1; evaluate(a) = 0 when a < b and
\* evaluate(c) = 0 when b < c (a shoulder's end a = b or c = b evaluates to
\* 1); non-decreasing on [a, b] and non-increasing on [b, c]; every degree
\* in [0, 1].
C3_TriangleShape ==
    tri_y /= <<>> =>
        /\ TriAt(tri_abc[2]) = One
        /\ tri_abc[1] < tri_abc[2] => TriAt(tri_abc[1]) = 0
        /\ tri_abc[2] < tri_abc[3] => TriAt(tri_abc[3]) = 0
        /\ TriMonotone
        /\ \A i \in DOMAIN tri_y : 0 <= tri_y[i] /\ tri_y[i] <= One

C3_Witness ==
    /\ tri_y /= <<>>
    /\ tri_abc = abc_tip_low
    /\ TriAt(0) = One
    /\ TriAt(6) > TriAt(7) /\ TriAt(7) > 0
    /\ TriAt(13) = 0

\* C4: a slider at an end of its universe is fuzzified without an error:
\* at 0 the low set has degree exactly 1 and the other two 0, at 10 the high
\* set has degree exactly 1 and the other two 0, for quality and for
\* service, by hand and in the simulation, and the run does not fail.
C4_EndpointAccepted ==
    /\ run /= "failed"
    /\ AfterMemberships =>
        /\ quality_score = 0 => quality_membership = <<One, 0, 0>>
        /\ quality_score = 10 => quality_membership = <<0, 0, One>>
        /\ service_score = 0 => service_membership = <<One, 0, 0>>
        /\ service_score = 10 => service_membership = <<0, 0, One>>
    /\ AfterInterpolate =>
        /\ quality_score = 0 => <<qual_lo, qual_md, qual_hi>> = <<One, 0, 0>>
        /\ quality_score = 10 => <<qual_lo, qual_md, qual_hi>> = <<0, 0, One>>
        /\ service_score = 0 => <<serv_lo, serv_md, serv_hi>> = <<One, 0, 0>>
        /\ service_score = 10 => <<serv_lo, serv_md, serv_hi>> = <<0, 0, One>>
    /\ AfterCompute =>
        /\ ~tipping_sim.error
        /\ quality_score = 0 => tipping_sim.input.quality = 0
        /\ service_score = 10 => tipping_sim.input.service = 10

C4_Witness ==
    /\ Done
    /\ quality_score = 0 /\ service_score = 10
    /\ qual_lo = One /\ serv_hi = One
    /\ quality_membership[1] = One

\* C6: a rule joining the rule base never lowers the aggregated tip curve
\* at any sample of the tip universe: the curve after the rule is at least
\* the curve before it, and the control system's aggregated curve for the
\* rules so far is at most its curve with any further rule.
C6_AggregationMonotone ==
    /\ \A i \in DOMAIN agg_output : agg_output[i] >= agg_prev[i]
    /\ agg_output /= <<>> =>
        /\ agg_output = aggregated_of(agg_rules)
        /\ \A r \in (1..3) \ agg_rules :
              LET more == aggregated_of(agg_rules \cup {r})
              IN  \A i \in DOMAIN agg_output : more[i] >= agg_output[i]

C6_Witness ==
    /\ Cardinality(agg_rules) = 2
    /\ \E i \in DOMAIN agg_output : agg_prev[i] > 0 /\ agg_output[i] > agg_prev[i]
    /\ \E i \in DOMAIN agg_output : agg_prev[i] > 0 /\ agg_output[i] = agg_prev[i]

\* C7: the rules applied by hand and the control system's rules agree: the
\* fuzzified degrees, each rule's firing strength and each rule's clipped
\* curve at every sample of the tip universe are equal.
C7_ManualMatchesControlSystem ==
    AfterCompute =>
        /\ tipping_sim.firing = <<active_rule1, serv_md, active_rule3>>
        /\ tipping_sim.cut = [low |-> active_rule1, medium |-> serv_md,
                              high |-> active_rule3]
        /\ SimActivation("low") = tip_activation_lo
        /\ SimActivation("medium") = tip_activation_md
        /\ SimActivation("high") = tip_activation_hi
        /\ SimAggregated = ManualAggregated

C7_Witness ==
    /\ Done
    /\ qual_hi > serv_hi /\ serv_hi > 0
    /\ tipping_sim.firing[3] = qual_hi
    /\ \E i \in DOMAIN tip_range :
          tip_activation_hi[i] = qual_hi /\ tip_high[i] > qual_hi

InUnit(d) == 0 <= d /\ d <= One

\* C8: every fuzzified degree, every firing strength and every point of
\* every activation curve lies in [0, 1], and each activation curve is at
\* every point the minimum of its rule's firing strength and its consequent
\* curve.
C8_DegreesInUnitInterval ==
    /\ AfterMemberships =>
        \A k \in 1..3 : InUnit(quality_membership[k]) /\ InUnit(service_membership[k])
    /\ AfterInterpolate =>
        /\ InUnit(qual_lo) /\ InUnit(qual_md) /\ InUnit(qual_hi)
        /\ InUnit(serv_lo) /\ InUnit(serv_md) /\ InUnit(serv_hi)
    /\ AfterRules =>
        /\ InUnit(active_rule1) /\ InUnit(active_rule3)
        /\ \A i \in DOMAIN tip_range :
              /\ InUnit(tip_activation_lo[i])
              /\ InUnit(tip_activation_md[i])
              /\ InUnit(tip_activation_hi[i])
              /\ tip_activation_lo[i] <= active_rule1
              /\ tip_activation_lo[i] <= tip_low[i]
              /\ tip_activation_lo[i] \in {active_rule1, tip_low[i]}
              /\ tip_activation_md[i] <= serv_md
              /\ tip_activation_md[i] <= tip_medium[i]
              /\ tip_activation_md[i] \in {serv_md, tip_medium[i]}
              /\ tip_activation_hi[i] <= active_rule3
              /\ tip_activation_hi[i] <= tip_high[i]
              /\ tip_activation_hi[i] \in {active_rule3, tip_high[i]}
    /\ AfterCompute =>
        /\ \A r \in 1..3 : InUnit(tipping_sim.firing[r])
        /\ \A i \in DOMAIN tipping_sim.output_mf : InUnit(tipping_sim.output_mf[i])

C8_Witness ==
    /\ Done
    /\ 0 < active_rule1 /\ active_rule1 < One
    /\ \E i \in DOMAIN tip_range : tip_activation_lo[i] < tip_low[i]
    /\ \E i \in DOMAIN tip_range :
          0 < tip_activation_lo[i] /\ tip_activation_lo[i] < active_rule1

\* C9: inference leaves the configuration as constructed: from lines 14-32
\* to the end of the run the three universes and the nine curves have the
\* values those lines gave them, and both figures drew those curves.
C9_ConfigurationUnchanged ==
    /\ AfterDefine =>
        /\ quality_range = arange(0, 11, 1)
        /\ service_range = arange(0, 11, 1)
        /\ tip_range = arange(0, 26, 1)
        /\ quality_low = trimf(quality_range, abc_quality_low)
        /\ quality_medium = trimf(quality_range, abc_quality_medium)
        /\ quality_high = trimf(quality_range, abc_quality_high)
        /\ service_low = trimf(service_range, abc_service_low)
        /\ service_medium = trimf(service_range, abc_service_medium)
        /\ service_high = trimf(service_range, abc_service_high)
        /\ tip_low = trimf(tip_range, abc_tip_low)
        /\ tip_medium = trimf(tip_range, abc_tip_medium)
        /\ tip_high = trimf(tip_range, abc_tip_high)
    /\ pc > 170 =>
        /\ fig_activity.x_tip = arange(0, 26, 1)
        /\ fig_activity.tip_lo = trimf(tip_range, abc_tip_low)
        /\ fig_activity.tip_md = trimf(tip_range, abc_tip_medium)
        /\ fig_activity.tip_hi = trimf(tip_range, abc_tip_high)
    /\ Done =>
        /\ fig_final.x_tip = arange(0, 26, 1)
        /\ fig_final.tip_lo = trimf(tip_range, abc_tip_low)
        /\ fig_final.tip_md = trimf(tip_range, abc_tip_medium)
        /\ fig_final.tip_hi = trimf(tip_range, abc_tip_high)

C9_Witness ==
    /\ Done
    /\ tip_activation_lo /= tip_low
    /\ tip_activation_md /= tip_medium
    /\ tip_activation_hi /= tip_high
    /\ fig_final.tip_lo = tip_low
    /\ fig_activity.activation_lo = tip_activation_lo

\* C10: for every slider pair some rule fires above 0 and the aggregated
\* tip curve has a positive sum, so defuzzification never fails.
C10_DefuzzificationDefined ==
    /\ run /= "failed"
    /\ AfterRules => (active_rule1 > 0 \/ serv_md > 0 \/ active_rule3 > 0)
    /\ AfterCompute =>
        /\ \E r \in 1..3 : tipping_sim.firing[r] > 0
        /\ SumSeq(SimAggregated) > 0
        /\ SumSeq(tipping_sim.output_mf) > 0
        /\ ~tipping_sim.error
        /\ tipping_sim.output.den > 0

C10_Witness ==
    /\ Done
    /\ quality_score = 10 /\ service_score = 10
    /\ tipping_sim.firing = <<0, 0, One>>
    /\ SumSeq(SimAggregated) > 0

====
